---- MODULE Spec2Model ----
(***************************************************************************)
(* Model of Atividades/Atividade 3_Siphon/NCSS_Cartopy_Example.ipynb: a    *)
(* notebook that resolves a THREDDS catalog, builds an NCSS subset query,  *)
(* fetches one gridded field, squeezes and converts it, meshes the         *)
(* coordinates and renders a map.  Each code cell is one action; the       *)
(* array and floating-point operations the cells apply are operators.      *)
(***************************************************************************)
EXTENDS Integers, Sequences, FiniteSets, TLC

(***************************************************************************)
(* Natural numbers of any size, as little-endian sequences of limbs in     *)
(* base 2^15 (TLC's integers are 32 bits wide; a product of two 53-bit     *)
(* significands is not).  <<>> is zero; no number ends in a zero limb.     *)
(***************************************************************************)
LimbBase == 2^15

RECURSIVE BTrim(_)
BTrim(a) ==
  IF a = <<>> THEN <<>>
  ELSE IF a[Len(a)] = 0 THEN BTrim(SubSeq(a, 1, Len(a) - 1))
  ELSE a

RECURSIVE BFromInt(_)
BFromInt(n) ==
  IF n = 0 THEN <<>> ELSE <<n % LimbBase>> \o BFromInt(n \div LimbBase)

BRest(a) == IF a = <<>> THEN <<>> ELSE Tail(a)

BLow(a) == IF a = <<>> THEN 0 ELSE Head(a)

RECURSIVE BAddC(_, _, _)
BAddC(a, b, c) ==
  IF a = <<>> /\ b = <<>> THEN (IF c = 0 THEN <<>> ELSE <<c>>)
  ELSE LET s == BLow(a) + BLow(b) + c
       IN  <<s % LimbBase>> \o BAddC(BRest(a), BRest(b), s \div LimbBase)

BAdd(a, b) == BAddC(a, b, 0)

\* a - b - c for a >= b + c
RECURSIVE BSubC(_, _, _)
BSubC(a, b, c) ==
  IF a = <<>> THEN <<>>
  ELSE LET s == BLow(a) - BLow(b) - c
       IN  IF s < 0
             THEN <<s + LimbBase>> \o BSubC(BRest(a), BRest(b), 1)
             ELSE <<s>> \o BSubC(BRest(a), BRest(b), 0)

BSub(a, b) == BTrim(BSubC(a, b, 0))

\* a * k + c for one limb k
RECURSIVE BMulSmallC(_, _, _)
BMulSmallC(a, k, c) ==
  IF a = <<>> THEN (IF c = 0 THEN <<>> ELSE <<c>>)
  ELSE LET s == Head(a) * k + c
       IN  <<s % LimbBase>> \o BMulSmallC(Tail(a), k, s \div LimbBase)

BMulSmall(a, k) == BTrim(BMulSmallC(a, k, 0))

RECURSIVE BMul(_, _)
BMul(a, b) ==
  IF a = <<>> \/ b = <<>> THEN <<>>
  ELSE LET rest == BMul(a, Tail(b))
       IN  BAdd(BMulSmall(a, Head(b)),
                IF rest = <<>> THEN <<>> ELSE <<0>> \o rest)

\* quotient and remainder of a by one limb d
RECURSIVE BDivSmall(_, _)
BDivSmall(a, d) ==
  IF a = <<>> THEN [q |-> <<>>, r |-> 0]
  ELSE LET hi  == BDivSmall(Tail(a), d)
           cur == hi.r * LimbBase + Head(a)
       IN  [q |-> <<cur \div d>> \o hi.q, r |-> cur % d]

\* -1, 0, 1 as a < b, a = b, a > b; compares the limbs from index i down
RECURSIVE BCmpFrom(_, _, _)
BCmpFrom(a, b, i) ==
  IF i = 0 THEN 0
  ELSE IF a[i] < b[i] THEN -1
  ELSE IF a[i] > b[i] THEN 1
  ELSE BCmpFrom(a, b, i - 1)

BCmp(a, b) ==
  IF Len(a) < Len(b) THEN -1
  ELSE IF Len(a) > Len(b) THEN 1
  ELSE BCmpFrom(a, b, Len(a))

RECURSIVE IBitLen(_)
IBitLen(n) == IF n = 0 THEN 0 ELSE 1 + IBitLen(n \div 2)

BBitLen(a) == IF a = <<>> THEN 0 ELSE (Len(a) - 1) * 15 + IBitLen(a[Len(a)])

BZeros(n) == [i \in 1..n |-> 0]

BShl(a, k) ==
  IF a = <<>> THEN <<>> ELSE BZeros(k \div 15) \o BMulSmall(a, 2^(k % 15))

BShr(a, k) ==
  IF k \div 15 >= Len(a) THEN <<>>
  ELSE BTrim(BDivSmall(SubSeq(a, k \div 15 + 1, Len(a)), 2^(k % 15)).q)

\* bit i (bit 0 the lowest) of a
BBit(a, i) ==
  IF i \div 15 + 1 > Len(a) THEN 0
  ELSE (a[i \div 15 + 1] \div 2^(i % 15)) % 2

\* the k lowest bits of a are all zero
BLowZero(a, k) ==
  /\ \A i \in 1..(k \div 15) : i > Len(a) \/ a[i] = 0
  /\ \/ k \div 15 + 1 > Len(a)
     \/ a[k \div 15 + 1] % 2^(k % 15) = 0

\* number of trailing zero bits of a # 0
RECURSIVE BTrailingZeros(_)
BTrailingZeros(a) ==
  IF Head(a) = 0 THEN 15 + BTrailingZeros(Tail(a))
  ELSE CHOOSE t \in 0..14 : Head(a) % 2^t = 0 /\ (Head(a) \div 2^t) % 2 = 1

(***************************************************************************)
(* IEEE-754 binary floating point, round to nearest, ties to even.  A      *)
(* value is zero, infinite, or (-1)^neg * m * 2^e with m odd, so that two  *)
(* records are equal exactly when the numbers are.  A format is its        *)
(* precision p and the exponent emax with every finite value below 2^emax. *)
(* Gradual underflow is left out: no input below lies near the subnormals. *)
(***************************************************************************)
Binary32 == [p |-> 24, emax |-> 128]

Binary64 == [p |-> 53, emax |-> 1024]

FZero == [k |-> "zero", neg |-> FALSE, m |-> <<>>, e |-> 0]

FInf(neg) == [k |-> "inf", neg |-> neg, m |-> <<>>, e |-> 0]

\* the exact value (-1)^neg * n * 2^e, n # 0, in canonical form
FExact(neg, n, e) ==
  LET t == BTrailingZeros(n)
  IN  [k |-> "fin", neg |-> neg, m |-> BShr(n, t), e |-> e + t]

\* a small integer times a power of two
FInt(n, e) ==
  IF n = 0 THEN FZero
  ELSE FExact(n < 0, BFromInt(IF n < 0 THEN -n ELSE n), e)

\* (-1)^neg * (n + sticky) * 2^e rounded to the format; sticky stands for a
\* discarded nonzero fraction below one unit of n
FRound(neg, n, e, sticky, fmt) ==
  IF n = <<>> THEN FZero
  ELSE
    LET len == BBitLen(n)
        k   == len - fmt.p
        q   == IF k <= 0 THEN n ELSE BShr(n, k)
        up  == /\ k > 0
               /\ BBit(n, k - 1) = 1
               /\ \/ sticky
                  \/ ~BLowZero(n, k - 1)
                  \/ BBit(q, 0) = 1
        r   == IF up THEN BAdd(q, <<1>>) ELSE q
        er  == IF k <= 0 THEN e ELSE e + k
    IN  IF BBitLen(r) + er > fmt.emax THEN FInf(neg) ELSE FExact(neg, r, er)

\* the decimal literal n / d (d one limb) as Python reads it: a double
FromDecimal(n, d) ==
  IF n = 0 THEN FZero
  ELSE LET s  == Binary64.p + 17
           qr == BDivSmall(BShl(BFromInt(n), s), d)
       IN  FRound(FALSE, BTrim(qr.q), -s, qr.r # 0, Binary64)

\* conversion of a value to a format (a Python float scalar meeting a float32 array)
FCast(x, fmt) ==
  IF x.k = "fin" THEN FRound(x.neg, x.m, x.e, FALSE, fmt) ELSE x

FNeg(x) == IF x.k = "zero" THEN x ELSE [x EXCEPT !.neg = ~x.neg]

\* -1, 0, 1 for the magnitudes of two finite nonzero values
FCmpMag(x, y) ==
  LET tx == BBitLen(x.m) + x.e
      ty == BBitLen(y.m) + y.e
      e0 == IF x.e < y.e THEN x.e ELSE y.e
  IN  IF tx < ty THEN -1
      ELSE IF tx > ty THEN 1
      ELSE BCmp(BShl(x.m, x.e - e0), BShl(y.m, y.e - e0))

\* -1, 0, 1 as x < y, x = y, x > y
FCmp(x, y) ==
  LET sgn(v) == IF v.k = "zero" THEN 0 ELSE IF v.neg THEN -1 ELSE 1
  IN  IF sgn(x) # sgn(y) THEN (IF sgn(x) < sgn(y) THEN -1 ELSE 1)
      ELSE IF sgn(x) = 0 THEN 0
      ELSE IF x.k = "inf" \/ y.k = "inf"
        THEN (IF x.k = y.k THEN 0
              ELSE IF (x.k = "inf") = (sgn(x) = 1) THEN 1 ELSE -1)
      ELSE sgn(x) * FCmpMag(x, y)

FLt(x, y) == FCmp(x, y) = -1

FLe(x, y) == FCmp(x, y) <= 0

\* x * y in the format
FMul(x, y, fmt) ==
  IF x.k = "zero" \/ y.k = "zero" THEN FZero
  ELSE IF x.k = "inf" \/ y.k = "inf" THEN FInf(x.neg # y.neg)
  ELSE FRound(x.neg # y.neg, BMul(x.m, y.m), x.e + y.e, FALSE, fmt)

\* x + y for finite nonzero x, y with |y| below one unit of |x| taken to p + 3
\* bits: y only decides the direction of the rounding
FAddFar(x, y, fmt) ==
  LET s == fmt.p + 3 - BBitLen(x.m)
      H == BShl(x.m, s)
  IN  IF x.neg = y.neg THEN FRound(x.neg, H, x.e - s, TRUE, fmt)
      ELSE FRound(x.neg, BSub(H, <<1>>), x.e - s, TRUE, fmt)

\* x + y in the format (never inf + -inf here: callers add a finite y)
FAdd(x, y, fmt) ==
  IF x.k = "zero" THEN y
  ELSE IF y.k = "zero" THEN x
  ELSE IF x.k = "inf" THEN x
  ELSE IF y.k = "inf" THEN y
  ELSE IF BBitLen(x.m) + x.e > BBitLen(y.m) + y.e + fmt.p + 3 THEN FAddFar(x, y, fmt)
  ELSE IF BBitLen(y.m) + y.e > BBitLen(x.m) + x.e + fmt.p + 3 THEN FAddFar(y, x, fmt)
  ELSE
    LET e0 == IF x.e < y.e THEN x.e ELSE y.e
        X  == BShl(x.m, x.e - e0)
        Y  == BShl(y.m, y.e - e0)
        c  == BCmp(X, Y)
    IN  IF x.neg = y.neg THEN FRound(x.neg, BAdd(X, Y), e0, FALSE, fmt)
        ELSE IF c = 0 THEN FZero
        ELSE IF c > 0 THEN FRound(x.neg, BSub(X, Y), e0, FALSE, fmt)
        ELSE FRound(y.neg, BSub(Y, X), e0, FALSE, fmt)

FSub(x, y, fmt) == FAdd(x, FNeg(y), fmt)

\* the literals of "temp_vals * 1.8 - 459.67"
Lit_1_8 == FromDecimal(18, 10)

Lit_459_67 == FromDecimal(45967, 100)
\* the conversion with the offset added instead of subtracted
convert_plus(x, fmt) ==
  FAdd(FMul(x, FCast(Lit_1_8, fmt), fmt), FCast(Lit_459_67, fmt), fmt)

\* temp_vals * 1.8 - 459.67 on one element of an array of the format
convert(x, fmt) ==
  FSub(FMul(x, FCast(Lit_1_8, fmt), fmt), FCast(Lit_459_67, fmt), fmt)

(***************************************************************************)
(* Arrays: a shape (the sequence of axis lengths) and the values in        *)
(* row-major order.                                                        *)
(***************************************************************************)
RECURSIVE Product(_)
Product(shape) == IF shape = <<>> THEN 1 ELSE Head(shape) * Product(Tail(shape))

Array(shape, vals) == [shape |-> shape, vals |-> vals]
\* a squeeze that removes only the first axis of length 1
squeeze_first(a) ==
  LET ones == {i \in 1..Len(a.shape) : a.shape[i] = 1}
      lo   == CHOOSE i \in ones : \A j \in ones : i <= j
  IN  IF ones = {} THEN a
      ELSE Array([i \in 1..(Len(a.shape) - 1) |->
                    IF i < lo THEN a.shape[i] ELSE a.shape[i + 1]], a.vals)

\* ndarray.squeeze(): remove every axis of length 1
squeeze(a) == Array(SelectSeq(a.shape, LAMBDA d : d # 1), a.vals)
\* np.meshgrid(x, y, indexing='ij'): shape (size of x, size of y)
meshgrid_ij(x, y) ==
  LET nx == Len(x.vals)
      ny == Len(y.vals)
      at(k) == [i |-> (k - 1) \div ny + 1, j |-> ((k - 1) % ny) + 1]
  IN  << Array(<<nx, ny>>, [k \in 1..(nx * ny) |-> x.vals[at(k).i]]),
         Array(<<nx, ny>>, [k \in 1..(nx * ny) |-> y.vals[at(k).j]]) >>

\* np.meshgrid(x, y), default indexing 'xy': both results have shape
\* (size of y, size of x); the first repeats x along rows, the second y along columns
meshgrid(x, y) ==
  LET nx == Len(x.vals)
      ny == Len(y.vals)
      at(k) == [i |-> (k - 1) \div nx + 1, j |-> ((k - 1) % nx) + 1]
  IN  << Array(<<ny, nx>>, [k \in 1..(ny * nx) |-> x.vals[at(k).j]]),
         Array(<<ny, nx>>, [k \in 1..(ny * nx) |-> y.vals[at(k).i]]) >>

\* temp_vals * 1.8 - 459.67 on an array: element by element, in the array's format
convert_array(a, fmt) ==
  Array(a.shape, [k \in 1..Len(a.vals) |-> convert(a.vals[k], fmt)])
\* the first name of the coordinates attribute instead of the second
time_name_first(coordinates) == coordinates[1]

\* temp_var.coordinates.split()[1]: the second name of the coordinates attribute
time_name_of(coordinates) == coordinates[2]

\* netCDF4.num2date(value, units) of a single value
num2date(a, units) == [value |-> a.vals[1], units |-> units]

\* ax.contourf(X, Y, Z, ...) accepts only a 2-D Z of at least 2 x 2 with X and Y of Z's shape
contourf_accepts(X, Y, Z) ==
  /\ Len(Z.shape) = 2
  /\ \A i \in 1..2 : Z.shape[i] >= 2
  /\ X.shape = Z.shape
  /\ Y.shape = Z.shape

(***************************************************************************)
(* The notebook's literals.                                                *)
(***************************************************************************)
QueryNorth == 43

QuerySouth == 35

QueryEast == -100

QueryWest == -111

\* ax.set_extent([-100., -111., 35, 43]): cartopy reads the list as (x0, x1, y0, y1)
ExtentArg == <<-100, -111, 35, 43>>

ContourLevels == 200

(***************************************************************************)
(* Bounds of the model and the responses the two servers may give.         *)
(***************************************************************************)
MaxDatasets == 2

MaxLat == 2

MaxLon == 2

MaxRank == 3

MaxDim == 3

Clock == {1, 2}

TimeNames == {"time", "time1"}

Formats == {Binary32, Binary64}

\* surface temperatures in kelvin a grid may hold
KelvinSamples ==
  << FromDecimal(27315, 100), FromDecimal(37315, 100), FromDecimal(2885, 10) >>

Null == [undef |-> TRUE]

\* the variables of an NCSS response for a GFS "Best" collection: the field on
\* (time, lat, lon) whose coordinates attribute lists the run time first and
\* the forecast time second, and the coordinate variables
Variables(L, M, tname, ncoord, hasTemp, fmt, k0, hour) ==
  LET n == Len(KelvinSamples)
      temp == [dimensions |-> <<tname, "lat", "lon">>,
               coordinates |-> SubSeq(<<"reftime", tname, "lat", "lon">>, 1, ncoord),
               units |-> "K",
               dtype |-> fmt,
               data |-> Array(<<1, L, M>>,
                              [k \in 1..(L * M) |->
                                 FCast(KelvinSamples[((k0 + k) % n) + 1], fmt)])]
      coord == (tname :> [dimensions |-> <<tname>>, units |-> "Hour since reference",
                          data |-> Array(<<1>>, <<hour>>)])
            @@ ("reftime" :> [dimensions |-> <<tname>>, units |-> "Hour since reference",
                              data |-> Array(<<1>>, <<0>>)])
            @@ ("lat" :> [dimensions |-> <<"lat">>, units |-> "degrees_north",
                          data |-> Array(<<L>>, [i \in 1..L |-> QueryNorth - (i - 1)])])
            @@ ("lon" :> [dimensions |-> <<"lon">>, units |-> "degrees_east",
                          data |-> Array(<<M>>, [j \in 1..M |-> QueryWest + (j - 1)])])
  IN  IF hasTemp THEN ("Temperature_surface" :> temp) @@ coord ELSE coord

(***************************************************************************)
(* State: the notebook's names, the position in the notebook, the          *)
(* exception that ended the run, and a record of what ran.                 *)
(***************************************************************************)
VARIABLES
  pc,          \* the cell to run next, "done", or "failed"
  err,         \* the exception raised, "none" while none was
  ran,         \* the cells started, in order
  calls,       \* how often each network request was made
  best_gfs, best_ds, ncss, query, data,
  temp_var, time_name, time_var, lat_var, lon_var,
  temp_vals, lat_vals, lon_vals, time_val, lon_2d, lat_2d,
  fig,         \* what the plotting calls of the last cell received
  arg, res, tpc  \* argument, result and position of a function applied alone

netVars == <<best_gfs, best_ds, ncss, query, data>>

pickVars == <<temp_var, time_name, time_var, lat_var, lon_var>>

arrVars == <<temp_vals, lat_vals, lon_vals, time_val, lon_2d, lat_2d>>

pureVars == <<arg, res, tpc>>

vars == <<pc, err, ran, calls, netVars, pickVars, arrVars, fig, pureVars>>

Names ==
  /\ best_gfs = Null /\ best_ds = Null /\ ncss = Null /\ query = Null /\ data = Null
  /\ temp_var = Null /\ time_name = "" /\ time_var = Null
  /\ lat_var = Null /\ lon_var = Null
  /\ temp_vals = Null /\ lat_vals = Null /\ lon_vals = Null /\ time_val = Null
  /\ lon_2d = Null /\ lat_2d = Null
  /\ fig = Null
  /\ err = "none" /\ ran = <<>> /\ calls = [catalog |-> 0, fetch |-> 0]

Init ==
  /\ Names
  /\ pc = "cell4"
  /\ arg = Null /\ res = Null /\ tpc = "off"

\* a statement of cell c raised e: the run ends there
Raise(e) == pc' = "failed" /\ err' = e

Goto(c) == pc' = c /\ err' = err

Start(c) == pc = c /\ ran' = Append(ran, c)

\* best_gfs = TDSCatalog(url); print(list(best_gfs.datasets))
Cell4 ==
  /\ Start("cell4")
  /\ calls' = [calls EXCEPT !.catalog = @ + 1]
  /\ \/ /\ Raise("ConnectionError")
        /\ best_gfs' = best_gfs
     \/ /\ \E n \in 0..MaxDatasets, a \in BOOLEAN :
             best_gfs' = [datasets |->
                            [i \in 1..n |-> [name |-> i, ncss |-> (i > 1 \/ a)]]]
        /\ Goto("cell6")
  /\ UNCHANGED <<best_ds, ncss, query, data, pickVars, arrVars, fig, pureVars>>

\* best_ds = best_gfs.datasets[0]; ncss = best_ds.subset()
Cell6 ==
  /\ Start("cell6")
  /\ IF best_gfs.datasets = <<>>
       THEN Raise("IndexError") /\ UNCHANGED <<best_ds, ncss>>
       ELSE /\ best_ds' = best_gfs.datasets[1]
            /\ IF best_ds'.ncss
                 THEN ncss' = [dataset |-> best_ds'.name] /\ Goto("cell8")
                 ELSE Raise("ValueError") /\ ncss' = ncss
  /\ UNCHANGED <<calls, best_gfs, query, data, pickVars, arrVars, fig, pureVars>>

\* query = ncss.query()
Cell8 ==
  /\ Start("cell8")
  /\ query' = [box |-> Null, time |-> Null, accept |-> "", var |-> {}]
  /\ Goto("cell10")
  /\ UNCHANGED <<calls, best_gfs, best_ds, ncss, data, pickVars, arrVars, fig, pureVars>>

\* query.lonlat_box(north=43, south=35, east=-100, west=-111).time(datetime.utcnow())
\* query.accept('netcdf4'); query.variables('Temperature_surface')
Cell10 ==
  /\ Start("cell10")
  /\ \E now \in Clock :
       query' = [box |-> [north |-> QueryNorth, south |-> QuerySouth,
                          east |-> QueryEast, west |-> QueryWest],
                 time |-> [utc |-> now],
                 accept |-> "netcdf4",
                 var |-> query.var \cup {"Temperature_surface"}]
  /\ Goto("cell12")
  /\ UNCHANGED <<calls, best_gfs, best_ds, ncss, data, pickVars, arrVars, fig, pureVars>>

\* a fetch that asks again after a transport error, up to three times
Cell12_retry ==
  /\ pc = "cell12"
  /\ ran' = Append(ran, "cell12")
  /\ calls' = [calls EXCEPT !.fetch = @ + 1]
  /\ \/ /\ IF calls.fetch < 2 THEN Goto("cell12") ELSE Raise("HTTPError")
        /\ data' = data
     \/ /\ \E L \in 1..MaxLat, M \in 1..MaxLon, tname \in TimeNames, ncoord \in 0..4,
             hasTemp \in BOOLEAN, fmt \in Formats, k0 \in 1..Len(KelvinSamples) :
             data' = [variables |->
                        Variables(L, M, tname, ncoord, hasTemp, fmt, k0, query.time.utc)]
        /\ Goto("cell14")
  /\ UNCHANGED <<best_gfs, best_ds, ncss, query, pickVars, arrVars, fig, pureVars>>

\* data = ncss.get_data(query); print(list(data.variables))
Cell12 ==
  /\ Start("cell12")
  /\ calls' = [calls EXCEPT !.fetch = @ + 1]
  /\ \/ /\ Raise("HTTPError")
        /\ data' = data
     \/ /\ \E L \in 1..MaxLat, M \in 1..MaxLon, tname \in TimeNames, ncoord \in 0..4,
             hasTemp \in BOOLEAN, fmt \in Formats, k0 \in 1..Len(KelvinSamples) :
             data' = [variables |->
                        Variables(L, M, tname, ncoord, hasTemp, fmt, k0, query.time.utc)]
        /\ Goto("cell14")
  /\ UNCHANGED <<best_gfs, best_ds, ncss, query, pickVars, arrVars, fig, pureVars>>

\* temp_var = data.variables['Temperature_surface']
\* time_name = temp_var.coordinates.split()[1]; time_var = data.variables[time_name]
\* lat_var = data.variables['lat']; lon_var = data.variables['lon']
Cell14 ==
  /\ Start("cell14")
  /\ LET v == data.variables
         has(name) == name \in DOMAIN v
     IN  IF ~has("Temperature_surface")
           THEN Raise("KeyError") /\ UNCHANGED pickVars
         ELSE
           /\ temp_var' = v["Temperature_surface"]
           /\ IF Len(temp_var'.coordinates) < 2
                THEN Raise("IndexError")
                     /\ UNCHANGED <<time_name, time_var, lat_var, lon_var>>
              ELSE
                /\ time_name' = time_name_of(temp_var'.coordinates)
                /\ IF ~has(time_name')
                     THEN Raise("KeyError") /\ UNCHANGED <<time_var, lat_var, lon_var>>
                   ELSE
                     /\ time_var' = v[time_name']
                     /\ IF ~has("lat")
                          THEN Raise("KeyError") /\ UNCHANGED <<lat_var, lon_var>>
                        ELSE
                          /\ lat_var' = v["lat"]
                          /\ IF ~has("lon")
                               THEN Raise("KeyError") /\ lon_var' = lon_var
                               ELSE lon_var' = v["lon"] /\ Goto("cell16")
  /\ UNCHANGED <<calls, netVars, arrVars, fig, pureVars>>

\* temp_vals, lat_vals, lon_vals = the squeezed data; time_val = num2date(...)
\* temp_vals = temp_vals * 1.8 - 459.67; lon_2d, lat_2d = np.meshgrid(lon_vals, lat_vals)
Cell16 ==
  /\ Start("cell16")
  /\ temp_vals' = convert_array(squeeze(temp_var.data), temp_var.dtype)
  /\ lat_vals' = squeeze(lat_var.data)
  /\ lon_vals' = squeeze(lon_var.data)
  /\ time_val' = num2date(squeeze(time_var.data), time_var.units)
  /\ lon_2d' = meshgrid(lon_vals', lat_vals')[1]
  /\ lat_2d' = meshgrid(lon_vals', lat_vals')[2]
  /\ Goto("cell18")
  /\ UNCHANGED <<calls, netVars, pickVars, fig, pureVars>>

\* fig = plt.figure(); ax = plt.axes(projection); ax.set_extent([...]); ax.add_feature(...)
\* cf = ax.contourf(lon_2d, lat_2d, temp_vals, 200, ...); plt.colorbar(cf, ...)
\* ax.set_title('... {0:%d %B %Y %H:%MZ}'.format(time_val)); ax.plot(lon_2d.flatten(), ...)
Cell18 ==
  /\ Start("cell18")
  /\ LET drawn == [extent |-> ExtentArg,
                   features |-> {"STATES"},
                   contourf |-> [X |-> lon_2d.shape, Y |-> lat_2d.shape,
                                 Z |-> temp_vals.shape, levels |-> ContourLevels],
                   filled |-> FALSE, colorbar |-> FALSE,
                   title |-> Null, points |-> <<>>]
     IN  IF ~contourf_accepts(lon_2d, lat_2d, temp_vals)
           THEN Raise("TypeError") /\ fig' = drawn
           ELSE /\ fig' = [drawn EXCEPT
                             !.filled = TRUE, !.colorbar = TRUE,
                             !.title = [time |-> time_val],
                             !.points = [k \in 1..Len(lon_2d.vals) |->
                                           <<lon_2d.vals[k], lat_2d.vals[k]>>]]
                /\ Goto("done")
  /\ UNCHANGED <<calls, netVars, pickVars, arrVars, pureVars>>

Next ==
  \/ Cell4 \/ Cell6 \/ Cell8 \/ Cell10 \/ Cell12 \/ Cell14 \/ Cell16 \/ Cell18

Spec == Init /\ [][Next]_vars

(***************************************************************************)
(* The array functions applied alone, on inputs drawn from bounded sets.   *)
(***************************************************************************)
Idle == Names /\ pc = "idle"

Shapes == UNION {[1..r -> 1..MaxDim] : r \in 0..MaxRank}

InitSqueeze ==
  /\ Idle
  /\ tpc = "start" /\ res = Null
  /\ \E shape \in Shapes : arg = Array(shape, [k \in 1..Product(shape) |-> k])

SqueezeOnce ==
  /\ tpc = "start"
  /\ res' = [once |-> squeeze(arg), twice |-> Null]
  /\ tpc' = "once"
  /\ UNCHANGED <<pc, err, ran, calls, netVars, pickVars, arrVars, fig, arg>>

SqueezeTwice ==
  /\ tpc = "once"
  /\ res' = [res EXCEPT !.twice = squeeze(res.once)]
  /\ tpc' = "twice"
  /\ UNCHANGED <<pc, err, ran, calls, netVars, pickVars, arrVars, fig, arg>>

NextSqueeze == SqueezeOnce \/ SqueezeTwice

SpecSqueeze == InitSqueeze /\ [][NextSqueeze]_vars

\* kelvin inputs of a format: the two fixed points of the scale, zero and a value
\* next to it, neighbouring values of each format, a negative value, and three
\* values of the largest binade
K273_15 == FromDecimal(27315, 100)

K373_15 == FromDecimal(37315, 100)

Samples(fmt) ==
  { FCast(x, fmt) :
      x \in { K273_15, K373_15, FZero, FInt(1, -60), FInt(-5, 3),
              FInt(577, -1), FAdd(FInt(577, -1), FInt(1, -44), Binary64),
              FInt(9453572, -15), FInt(9453573, -15) } }
  \cup { FInt(1, fmt.emax - 1), FInt(3, fmt.emax - 2), FInt(7, fmt.emax - 3) }

InitConvert ==
  /\ Idle
  /\ tpc = "start" /\ res = Null
  /\ \E fmt \in Formats : \E a \in Samples(fmt), b \in Samples(fmt) :
       arg = [dtype |-> fmt, data |-> Array(<<1, 1, 2>>, <<a, b>>)]

ApplyConvert ==
  /\ tpc = "start"
  /\ res' = convert_array(squeeze(arg.data), arg.dtype)
  /\ tpc' = "applied"
  /\ UNCHANGED <<pc, err, ran, calls, netVars, pickVars, arrVars, fig, arg>>

NextConvert == ApplyConvert

SpecConvert == InitConvert /\ [][NextConvert]_vars

(***************************************************************************)
(* Properties.                                                             *)
(***************************************************************************)
Started(c) == \E i \in 1..Len(ran) : ran[i] = c

LastRan == ran[Len(ran)]

\* C1: when the fetched response lacks 'Temperature_surface', the run ends with
\* the typed failure VariableNotFound, not with a missing-key failure.
C1_MissingVariableTyped ==
  (/\ data # Null
   /\ "Temperature_surface" \notin DOMAIN data.variables
   /\ Started("cell14"))
  => (pc = "failed" /\ err = "VariableNotFound")

\* C2: once dataset resolution is over, an unreachable catalog or an empty
\* dataset list has ended the run with CatalogUnavailable, and with an empty
\* list the selection of the first dataset was never attempted.
C2_CatalogUnavailable ==
  LET unreachable == calls.catalog > 0 /\ best_gfs = Null
      empty       == best_gfs # Null /\ best_gfs.datasets = <<>>
  IN  /\ (pc \notin {"cell4", "cell6"} /\ (unreachable \/ empty))
           => (pc = "failed" /\ err = "CatalogUnavailable")
      /\ empty => ~Started("cell6")

\* C3: the value array handed to contourf has the shape (L, M) of both coordinate
\* grids, for every latitude length L >= 1 and longitude length M >= 1.
C3_ContourShapesAgree ==
  fig # Null =>
    LET LM == <<Product(lat_var.data.shape), Product(lon_var.data.shape)>>
    IN  /\ fig.contourf.Z = LM
        /\ fig.contourf.X = LM
        /\ fig.contourf.Y = LM

\* C4: the two meshed grids have shape (L, M), hold lat[i] and lon[j] at [i][j],
\* and so hold every (lat, lon) combination exactly once.
C4_MeshGrid ==
  lat_2d # Null =>
    LET lat == lat_var.data.vals
        lon == lon_var.data.vals
        L   == Len(lat)
        M   == Len(lon)
        pt(k) == <<lat_2d.vals[k], lon_2d.vals[k]>>
    IN  /\ lat_2d.shape = <<L, M>>
        /\ lon_2d.shape = <<L, M>>
        /\ Len(lat_2d.vals) = L * M
        /\ Len(lon_2d.vals) = L * M
        /\ \A i \in 1..L, j \in 1..M :
             /\ lat_2d.vals[(i - 1) * M + j] = lat[i]
             /\ lon_2d.vals[(i - 1) * M + j] = lon[j]
        /\ \A i \in 1..L, j \in 1..M :
             Cardinality({k \in 1..(L * M) : pt(k) = <<lat[i], lon[j]>>}) = 1

C4_Meshed ==
  /\ lat_2d # Null
  /\ Len(lat_var.data.vals) = 2
  /\ Len(lon_var.data.vals) = 1
  /\ lat_2d.shape = <<2, 1>>

\* C5: the extent given to the renderer is (west, east, south, north) of the
\* query's bounding box, in the renderer's order (x0, x1, y0, y1).
C5_ExtentIsQueryBox ==
  fig # Null =>
    fig.extent = <<query.box.west, query.box.east, query.box.south, query.box.north>>

\* C6: the variable read as time is the response's time coordinate (the one the
\* field's time axis is named after) whatever its name, its value is the one in
\* the title, and a coordinates list too short for the position ends the run.
C6_TimeByPosition ==
  /\ time_var # Null =>
       /\ time_name = temp_var.dimensions[1]
       /\ time_var = data.variables[temp_var.dimensions[1]]
  /\ (fig # Null /\ fig.title # Null) =>
       fig.title.time.value = data.variables[temp_var.dimensions[1]].data.vals[1]
  /\ (temp_var # Null /\ Len(temp_var.coordinates) < 2) =>
       (pc = "failed" /\ err # "none" /\ time_var = Null /\ fig = Null)

C6_RenamedTimeRead ==
  /\ pc = "done"
  /\ time_name = "time1"
  /\ fig.title.time.value = query.time.utc

\* C7 as stated: the conversion is exact at 273.15 and 373.15 and strictly
\* increasing, on every element of the grid.
C7_ExactAndStrict ==
  tpc = "applied" =>
    \A i \in 1..2, j \in 1..2 :
      LET in == arg.data.vals
      IN  /\ in[i] = FCast(K273_15, arg.dtype) => res.vals[i] = FInt(32, 0)
          /\ in[i] = FCast(K373_15, arg.dtype) => res.vals[i] = FInt(212, 0)
          /\ FLt(in[i], in[j]) => FLt(res.vals[i], res.vals[j])

Within(x, lo, hi) == FLt(lo, x) /\ FLt(x, hi)

\* C7 as amended: on every element of the grid the conversion gives 32 and 212 at
\* 273.15 and 373.15 only to within 0.0001, and it is non-decreasing.
C7_RoundedAndMonotone ==
  tpc = "applied" =>
    /\ res.shape = <<2>>
    /\ Len(res.vals) = 2
    /\ \A i \in 1..2, j \in 1..2 :
         LET in == arg.data.vals
         IN  /\ in[i] = FCast(K273_15, arg.dtype) =>
                  Within(res.vals[i], FromDecimal(319999, 10000), FromDecimal(320001, 10000))
             /\ in[i] = FCast(K373_15, arg.dtype) =>
                  Within(res.vals[i], FromDecimal(2119999, 10000), FromDecimal(2120001, 10000))
             /\ FLt(in[i], in[j]) => FLe(res.vals[i], res.vals[j])

C7_Converted ==
  /\ tpc = "applied"
  /\ arg.dtype = Binary64
  /\ arg.data.vals = <<K273_15, K373_15>>
  /\ FLt(res.vals[1], res.vals[2])

\* C9: each network request is made at most once, a failure ends the run where
\* it happened (nothing before the render cell leaves a figure), and no step
\* follows a failure.
C9_FailureTerminal ==
  /\ [](/\ calls.catalog <= 1
        /\ calls.fetch <= 1
        /\ err # "none" => /\ pc = "failed"
                           /\ LastRan # "cell18" => fig = Null
                           /\ fig # Null => ~fig.filled)
  /\ [][err # "none" => UNCHANGED vars]_vars

C9_FetchFailedOnce ==
  /\ pc = "failed"
  /\ err = "HTTPError"
  /\ calls = [catalog |-> 1, fetch |-> 1]
  /\ LastRan = "cell12"

\* C10: removing the axes of length 1 twice gives the shape and values that
\* removing them once gives, and the result has no axis of length 1.
C10_SqueezeIdempotent ==
  tpc = "twice" =>
    /\ res.twice = res.once
    /\ res.once.vals = arg.vals
    /\ \A i \in 1..Len(res.once.shape) : res.once.shape[i] # 1
    /\ res.once.shape = SelectSeq(arg.shape, LAMBDA d : d > 1)

C10_SqueezedTwice ==
  /\ tpc = "twice"
  /\ arg.shape = <<1, 2, 1>>
  /\ res.twice.shape = <<2>>
====
